---- MODULE Spec2Model ----
(***************************************************************************)
(* Model of iondrive (src/lib.rs): load(font_objects_module, path) parses  *)
(* a UFO with norad and rebuilds it as a tree of host (Python) objects     *)
(* whose classes are looked up by name in the module the caller passes.    *)
(*                                                                         *)
(* Rust values are tagged records (field r), Python values are tagged      *)
(* records (field t).  A BTreeMap is the sequence of its <<key, value>>    *)
(* entries in ascending key order; map keys are the numbers 1..MaxKey,     *)
(* standing for the strings KeyStr(1) < KeyStr(2) < ...                    *)
(***************************************************************************)
EXTENDS Integers, Sequences, FiniteSets, TLC

\* ---------------------------------------------------------------- bounds
MaxLayers == 2      \* layers in a LayerSet
MaxKey == 2         \* distinct keys of a map (lib, groups, kerning)

Threads == {"t1", "t2"}    \* the threads that call load
Keys == 1..MaxKey

\* ------------------------------------------------------- Python values
PyNone == [t |-> "None"]
PyStr(s) == [t |-> "str", s |-> s]
PyNum(n) == [t |-> "num", n |-> n]
PyList(items) == [t |-> "list", items |-> items]
PyTuple(a, b) == [t |-> "tuple", a |-> a, b |-> b]
\* a dict is the sequence of its <<key, value>> items in iteration order
PyDict(items) == [t |-> "dict", items |-> items]
PyDictNew == PyDict(<<>>)
PyObj(cls, kwargs) == [t |-> "obj", cls |-> cls, kwargs |-> kwargs]

\* PyDict.set_item: a new key goes last, an existing key keeps its place
DictSetItem(d, k, v) ==
  IF \E i \in DOMAIN d.items : d.items[i][1] = k
  THEN PyDict([i \in DOMAIN d.items |->
                 IF d.items[i][1] = k THEN <<k, v>> ELSE d.items[i]])
  ELSE PyDict(Append(d.items, <<k, v>>))

DictKeys(d) == [i \in DOMAIN d.items |-> d.items[i][1]]

\* --------------------------------------------------------- Rust values
RNone == [r |-> "None"]
RSome(x) == [r |-> "Some", x |-> x]
RStr(s) == [r |-> "str", s |-> s]
RNum(n) == [r |-> "num", n |-> n]
RVec(xs) == [r |-> "vec", xs |-> xs]
RMap(m) == [r |-> "map", m |-> m]

KeyStr(k) == "key" \o ToString(k)

\* BTreeMap::insert: entries stay in ascending key order, a key occurs once
BTreeInsert(m, k, v) ==
  SelectSeq(m, LAMBDA e : e[1] < k) \o <<<<k, v>>>> \o SelectSeq(m, LAMBDA e : e[1] > k)

RECURSIVE BTreeFromInserts(_)
BTreeFromInserts(ins) ==
  IF ins = <<>> THEN <<>>
  ELSE LET n == Len(ins)
       IN BTreeInsert(BTreeFromInserts(SubSeq(ins, 1, n - 1)), ins[n][1], ins[n][2])

\* BTreeMap::iter: the entries in ascending key order
BTreeIter(m) == m

\* ------------------------------------------------------ scalar converter
RECURSIVE MyToObject(_)
RECURSIVE VecToObject(_)
RECURSIVE BTreeMapFill(_, _)

\* impl MyToPyObject for Vec<T>
VecToObject(xs) == PyList([i \in DOMAIN xs |-> MyToObject(xs[i])])

\* the loop of impl MyToPyObject for BTreeMap<A, B>, over the entries es
BTreeMapFill(d, es) ==
  IF es = <<>> THEN d
  ELSE BTreeMapFill(DictSetItem(d, PyStr(KeyStr(es[1][1])), MyToObject(es[1][2])),
                    Tail(es))

BTreeMapToObject_rev(m) ==
  BTreeMapFill(PyDictNew, [i \in DOMAIN m |-> m[Len(m) + 1 - i]])

\* impl MyToPyObject for BTreeMap<A, B>
BTreeMapToObject(m) == BTreeMapFill(PyDictNew, BTreeIter(m))

OptionToObject_empty(o) == IF o.r = "None" THEN PyStr("") ELSE MyToObject(o.x)

\* impl MyToPyObject for Option<T>
OptionToObject(o) == IF o.r = "None" THEN PyNone ELSE MyToObject(o.x)

\* impl MyToPyObject for Arc<str>
ArcStrToObject(s) == PyStr(s.s)

\* to_object, dispatched on the type of the value
MyToObject(v) ==
  CASE v.r = "None" -> OptionToObject(v)
    [] v.r = "Some" -> OptionToObject(v)
    [] v.r = "str" -> ArcStrToObject(v)
    [] v.r = "num" -> PyNum(v.n)
    [] v.r = "vec" -> VecToObject(v.xs)
    [] v.r = "map" -> BTreeMapToObject(v.m)

\* ------------------------------------------------------ the host registry
\* The module passed to load: attrs are the names getattr resolves, rejects
\* the classes whose constructor raises on the arguments it is given.
ClassNames ==
  {"Font", "Layer", "LayerSet", "Glyph", "Info",
   "Anchor", "Contour", "Component", "Guideline"}

GoodLoader == [attrs |-> ClassNames, rejects |-> {}]

Loaders ==
  {GoodLoader}
  \cup {[attrs |-> ClassNames \ {n}, rejects |-> {}] : n \in ClassNames}
  \cup {[attrs |-> ClassNames, rejects |-> {n}] :
          n \in {"Font", "Layer", "LayerSet", "Glyph"}}

\* One step of the marshaller acting on the host: a registry lookup or a
\* constructor invocation, with whether it succeeded.
EvGetattr(name, ok) == [op |-> "getattr", name |-> name, ok |-> ok]
EvCall(cls, method, args, kwargs, ok) ==
  [op |-> "call", cls |-> cls, method |-> method, args |-> args,
   kwargs |-> kwargs, ok |-> ok]

\* The result of a marshalling function: the object it returns and the host
\* steps it took, or (ok = FALSE) the steps up to the unwrap() that panicked.
Done(val, ev) == [ok |-> TRUE, val |-> val, ev |-> ev]
Panicked(ev) == [ok |-> FALSE, val |-> PyNone, ev |-> ev]

\* b runs after a, unless a panicked
AndThen(a, b) ==
  IF ~a.ok THEN a ELSE [ok |-> b.ok, val |-> b.val, ev |-> a.ev \o b.ev]

GetattrUnwrap_skip(ld, name) == Done(PyStr(name), <<EvGetattr(name, name \in ld.attrs)>>)

\* loader.getattr(name).unwrap()
GetattrUnwrap(ld, name) ==
  IF name \in ld.attrs
  THEN Done(PyStr(name), <<EvGetattr(name, TRUE)>>)
  ELSE Panicked(<<EvGetattr(name, FALSE)>>)

\* cls.call((), Some(kwargs)).unwrap()
CallUnwrap(ld, cls, kwargs) ==
  IF cls \in ld.rejects
  THEN Panicked(<<EvCall(cls, "__call__", <<>>, kwargs, FALSE)>>)
  ELSE Done(PyObj(cls, kwargs), <<EvCall(cls, "__call__", <<>>, kwargs, TRUE)>>)

\* --------------------------------------------------- composite marshaller
\* Anchor, Contour, Component, Guideline and Info are marshalled by modules
\* of their own (mod anchor, ...): look the class up, call it with the
\* entity's fields.  The entity is an opaque number here.
ChildToWrapped(x, cls, ld) ==
  AndThen(GetattrUnwrap(ld, cls), CallUnwrap(ld, cls, [data |-> PyNum(x)]))

\* impl ToWrappedPyObject for Vec<T>: the elements in order, up to the first
\* that panics
RECURSIVE VecToWrapped(_, _, _)
VecToWrapped(xs, cls, ld) ==
  IF xs = <<>> THEN Done(PyList(<<>>), <<>>)
  ELSE LET h == ChildToWrapped(xs[1], cls, ld)
           r == VecToWrapped(Tail(xs), cls, ld)
       IN IF ~h.ok THEN h
          ELSE IF ~r.ok THEN Panicked(h.ev \o r.ev)
          ELSE Done(PyList(<<h.val>> \o r.val.items), h.ev \o r.ev)

\* impl ToWrappedPyObject for Option<T>
OptionToWrapped(o, cls, ld) ==
  IF o.r = "None" THEN Done(PyNone, <<>>) ELSE ChildToWrapped(o.x, cls, ld)

\* *l as u32, for the characters the model uses
CharCode(c) ==
  CASE c = "A" -> 65
    [] c = "B" -> 66
    [] c = "b" -> 98

\* the library data of an entity, converted by mod plist: a key-sorted map
\* of nested values becomes a dict of native values
PlistToObject(lib) == MyToObject(lib)

\* impl ToWrappedPyObject for Arc<norad::Glyph>
GlyphToWrapped(g, ld) ==
  LET cls == GetattrUnwrap(ld, "Glyph")
      anchors == VecToWrapped(g.anchors, "Anchor", ld)
      contours == VecToWrapped(g.contours, "Contour", ld)
      components == VecToWrapped(g.components, "Component", ld)
      guidelines == VecToWrapped(g.guidelines, "Guideline", ld)
      kwargs ==
        [name |-> MyToObject(g.name),
         width |-> MyToObject(g.width),
         unicodes |-> PyList([i \in DOMAIN g.codepoints |->
                                PyNum(CharCode(g.codepoints[i]))]),
         lib |-> PlistToObject(g.lib),
         note |-> MyToObject(g.note),
         anchors |-> anchors.val,
         contours |-> contours.val,
         components |-> components.val,
         guidelines |-> guidelines.val]
  IN AndThen(AndThen(AndThen(AndThen(AndThen(cls, anchors), contours),
                             components), guidelines),
             CallUnwrap(ld, "Glyph", kwargs))

\* self.iter().map(|l| l.to_wrapped_object(loader, py)).collect() of a Layer
RECURSIVE GlyphsToWrapped(_, _)
GlyphsToWrapped(gs, ld) ==
  IF gs = <<>> THEN Done(PyList(<<>>), <<>>)
  ELSE LET h == GlyphToWrapped(gs[1], ld)
           r == GlyphsToWrapped(Tail(gs), ld)
       IN IF ~h.ok THEN h
          ELSE IF ~r.ok THEN Panicked(h.ev \o r.ev)
          ELSE Done(PyList(<<h.val>> \o r.val.items), h.ev \o r.ev)

\* Color::to_rgba_string: the four channels, comma separated
to_rgba_string(c) ==
  ToString(c[1]) \o "," \o ToString(c[2]) \o "," \o ToString(c[3]) \o ","
    \o ToString(c[4])

\* self.color.as_ref().map(|c| c.to_rgba_string()).to_object(py)
ColorToObject(color) ==
  IF color.r = "None" THEN PyNone ELSE PyStr(to_rgba_string(color.x))

\* impl ToWrappedPyObject for norad::Layer
LayerToWrapped(l, ld) ==
  LET cls == GetattrUnwrap(ld, "Layer")
      glyphs == GlyphsToWrapped(l.glyphs, ld)
      kwargs ==
        [name |-> MyToObject(l.name),
         glyphs |-> glyphs.val,
         lib |-> PlistToObject(l.lib),
         color |-> ColorToObject(l.color)]
  IN AndThen(AndThen(cls, glyphs), CallUnwrap(ld, "Layer", kwargs))

default_layer_const(layers) == [name |-> RStr("public.default")]

\* LayerSet::default_layer: the designated layer of the set
default_layer(layers) == layers.layers[layers.default]

Collect_front(wrapped, obj) == <<obj>> \o wrapped

\* .collect(): the next wrapped layer goes to the end of the Vec
Collect(wrapped, obj) == Append(wrapped, obj)

\* the end of wrap_layerset: look LayerSet up and call its from_iterable with
\* the wrapped layers and the default layer's name
FromIterable(wrapped, layers, ld) ==
  LET args == <<PyList(wrapped), PyStr(default_layer(layers).name.s)>>
  IN AndThen(GetattrUnwrap(ld, "LayerSet"),
             IF "LayerSet" \in ld.rejects
             THEN Panicked(<<EvCall("LayerSet", "from_iterable", args, <<>>, FALSE)>>)
             ELSE Done(PyObj("LayerSet", [layers |-> args[1], default |-> args[2]]),
                       <<EvCall("LayerSet", "from_iterable", args, <<>>, TRUE)>>))

KernKey_left(left, right) == PyStr(KeyStr(left))

\* (left, right).to_object(py)
KernKey(left, right) == PyTuple(PyStr(KeyStr(left)), PyStr(KeyStr(right)))

\* the inner loop of wrap_kerning, over the entries es of left's map
RECURSIVE KerningFillRight(_, _, _)
KerningFillRight(d, left, es) ==
  IF es = <<>> THEN d
  ELSE KerningFillRight(
         DictSetItem(d, KernKey(left, es[1][1]), MyToObject(es[1][2])),
         left, Tail(es))

\* the outer loop of wrap_kerning
RECURSIVE KerningFill(_, _)
KerningFill(d, es) ==
  IF es = <<>> THEN d
  ELSE KerningFill(KerningFillRight(d, es[1][1], BTreeIter(es[1][2])), Tail(es))

\* fn wrap_kerning
wrap_kerning(kerning) ==
  IF kerning.r = "None" THEN PyDictNew
  ELSE KerningFill(PyDictNew, BTreeIter(kerning.x))

\* self.features.as_ref().map_or("", |v| v.as_str()).to_object(py)
FeaturesToObject(features) ==
  IF features.r = "None" THEN PyStr("") ELSE PyStr(features.x.s)

\* self.groups.as_ref().map_or(PyDict::new(py).to_object(py), |v| v.to_object(py))
GroupsToObject(groups) ==
  IF groups.r = "None" THEN PyDictNew ELSE MyToObject(groups.x)

\* the rest of impl ToWrappedPyObject for norad::Font once the layers are
\* wrapped: info, features, groups, kerning, and the call of Font
FontFinish(ufo, layersObj, ld) ==
  LET info == OptionToWrapped(ufo.font_info, "Info", ld)
      kwargs ==
        [lib |-> PlistToObject(ufo.lib),
         layers |-> layersObj,
         info |-> info.val,
         features |-> FeaturesToObject(ufo.features),
         groups |-> GroupsToObject(ufo.groups),
         kerning |-> wrap_kerning(ufo.kerning)]
  IN AndThen(info, CallUnwrap(ld, "Font", kwargs))

\* ------------------------------------------------- the fonts on disk
\* What the parser reads: maps are given by the order of their keys in the
\* file (lib, groups) or by their key sets (kerning).
InsertOrders ==
  {s \in UNION {[1..n -> Keys] : n \in 0..MaxKey} :
     \A i, j \in DOMAIN s : i # j => s[i] # s[j]}

SortedKeys(S) ==
  CHOOSE s \in [1..Cardinality(S) -> S] : \A i, j \in DOMAIN s : i < j => s[i] < s[j]

LibVal(k) ==
  IF k = 1 THEN RStr("v")
  ELSE RMap(BTreeFromInserts(<<<<k, RNum(7)>>, <<1, RVec(<<RStr("x"), RStr("y")>>)>>>>))

\* the lib the parser builds from the keys in file order
LibOf(ins) == RMap(BTreeFromInserts([i \in DOMAIN ins |-> <<ins[i], LibVal(ins[i])>>]))

GroupMembers(k) ==
  IF k % 2 = 1 THEN RVec(<<RStr("A")>>) ELSE RVec(<<RStr("B"), RStr("A")>>)

\* the groups the parser builds from the group names in file order
GroupsOf(ins) ==
  RMap(BTreeFromInserts([i \in DOMAIN ins |-> <<ins[i], GroupMembers(ins[i])>>]))

KernVal(left, right) == 20 * left - 20 * right

\* kerning files: the left names, and for each the right names it kerns with
KerningFiles == UNION {[S -> SUBSET Keys] : S \in SUBSET Keys}

\* the kerning the parser builds from a kerning file
KerningOf(k) ==
  LET ls == SortedKeys(DOMAIN k)
  IN [i \in DOMAIN ls |->
        <<ls[i], LET rs == SortedKeys(k[ls[i]])
                 IN [j \in DOMAIN rs |-> <<rs[j], RNum(KernVal(ls[i], rs[j]))>>]>>]

GlyphA ==
  [name |-> RStr("A"), width |-> RSome(RNum(500)), codepoints |-> <<"A">>,
   lib |-> LibOf(<<>>), note |-> RNone,
   anchors |-> <<>>, contours |-> <<>>, components |-> <<>>, guidelines |-> <<>>]

GlyphB ==
  [name |-> RStr("B"), width |-> RNone, codepoints |-> <<"B", "b">>,
   lib |-> LibOf(<<1>>), note |-> RSome(RStr("a note")),
   anchors |-> <<1>>, contours |-> <<1, 2>>, components |-> <<1>>,
   guidelines |-> <<1>>]

LayerContents ==
  {[glyphs |-> <<>>, lib |-> LibOf(<<>>), color |-> RNone],
   [glyphs |-> <<GlyphA>>, lib |-> LibOf(<<>>), color |-> RSome(<<1, 0, 0, 1>>)],
   [glyphs |-> <<GlyphB, GlyphA>>, lib |-> LibOf(<<1>>), color |-> RNone]}

LayerNames == {"public.default", "public.background", "sketches"}

Layer(name, c) ==
  [name |-> RStr(name), glyphs |-> c.glyphs, lib |-> c.lib, color |-> c.color]

\* layer sets: 1..MaxLayers layers with distinct names, one of them the default
LayerSets ==
  UNION {
    {[layers |-> [i \in 1..n |-> Layer(x[1][i], x[2][i])], default |-> x[3]] :
       x \in {ns \in [1..n -> LayerNames] : \A i, j \in 1..n : i # j => ns[i] # ns[j]}
              \X [1..n -> LayerContents] \X (1..n)}
    : n \in 1..MaxLayers}

BaseLayerSet ==
  [layers |-> <<Layer("public.default",
                      [glyphs |-> <<GlyphA>>, lib |-> LibOf(<<>>), color |-> RNone])>>,
   default |-> 1]

BaseFile ==
  [lib |-> <<>>, layers |-> BaseLayerSet, info |-> RNone, features |-> RNone,
   groups |-> RNone, kerning |-> RNone]

FontFiles ==
  {[BaseFile EXCEPT !.layers = ls] : ls \in LayerSets}
  \cup {[BaseFile EXCEPT !.kerning = RSome(k)] : k \in KerningFiles}
  \cup {[BaseFile EXCEPT !.groups = RSome(ins)] : ins \in InsertOrders}
  \cup {[BaseFile EXCEPT !.lib = ins] : ins \in InsertOrders}
  \cup {[BaseFile EXCEPT !.features = RSome(RStr("feature aalt;")), !.info = RSome(1)]}

\* norad::Font::load on a well-formed font: the typed model
NoradFont(file) ==
  [lib |-> LibOf(file.lib),
   layers |-> file.layers,
   font_info |-> file.info,
   features |-> file.features,
   groups |-> IF file.groups.r = "None" THEN RNone ELSE RSome(GroupsOf(file.groups.x)),
   kerning |-> IF file.kerning.r = "None" THEN RNone
               ELSE RSome(KerningOf(file.kerning.x))]

\* the errors of the parser, and their Display text
ParseErrors ==
  {[variant |-> "IoError", detail |-> "No such file or directory"],
   [variant |-> "ParseError", detail |-> "metainfo.plist"],
   [variant |-> "MissingLayer", detail |-> "glyphs"]}

ErrorToString(error) == error.variant \o ": " \o error.detail

\* ------------------------------------------------------------ load
VARIABLES
  pc,        \* where each thread is in load
  gil,       \* the thread holding the interpreter lock, or "none"
  loader,    \* the module each call was given
  parsed,    \* the result of norad::Font::load in each call
  frame,     \* the locals of the marshaller: wrapped layers, the LayerSet
  trace,     \* the registry lookups and constructor calls of each call
  outcome    \* what each call is about to hand to its caller

vars == <<pc, gil, loader, parsed, frame, trace, outcome>>

NoParse == [st |-> "none"]
NoFrame == [wrapped |-> <<>>, layers |-> PyNone]
NoOutcome == [kind |-> "none"]
PanicOutcome == [kind |-> "panic"]

IondriveError_fixed(error) ==
  [kind |-> "err", exc |-> "IondriveError", msg |-> "could not load font"]

\* Err(IondriveError::new_err(error.to_string()))
IondriveError(error) ==
  [kind |-> "err", exc |-> "IondriveError", msg |-> ErrorToString(error)]

\* Ok(obj)
OkOutcome(obj) == [kind |-> "ok", val |-> obj]

Init ==
  /\ pc = [t \in Threads |-> "idle"]
  /\ gil = "none"
  /\ loader = [t \in Threads |-> GoodLoader]
  /\ parsed = [t \in Threads |-> NoParse]
  /\ frame = [t \in Threads |-> NoFrame]
  /\ trace = [t \in Threads |-> <<>>]
  /\ outcome = [t \in Threads |-> NoOutcome]

\* a thread calls load(loader, path)
Enter(t) ==
  /\ pc[t] = "idle"
  /\ pc' = [pc EXCEPT ![t] = "entered"]
  /\ UNCHANGED <<gil, loader, parsed, frame, trace, outcome>>

GilFree_always(t) == TRUE

\* Python::acquire_gil() returns once no other thread holds the lock
GilFree(t) == gil = "none"

\* let gil = Python::acquire_gil(); let py = gil.python();
AcquireGil(t) ==
  /\ pc[t] = "entered"
  /\ GilFree(t)
  /\ gil' = t
  /\ \E ld \in Loaders : loader' = [loader EXCEPT ![t] = ld]
  /\ pc' = [pc EXCEPT ![t] = "acquired"]
  /\ UNCHANGED <<parsed, frame, trace, outcome>>

ParseAt_entry(t) == pc[t] = "idle"

\* the point of load at which norad::Font::load runs: after acquire_gil
ParseAt(t) == pc[t] = "acquired"

\* match norad::Font::load(Path::new(&path)) { Ok(ufo) => ..., Err(error) => ... }
Parse(t) ==
  /\ ParseAt(t)
  /\ \/ \E file \in FontFiles :
          /\ parsed' = [parsed EXCEPT ![t] =
                          [st |-> "ok", file |-> file, ufo |-> NoradFont(file)]]
          /\ pc' = [pc EXCEPT ![t] = "font"]
          /\ outcome' = outcome
     \/ \E error \in ParseErrors :
          /\ parsed' = [parsed EXCEPT ![t] = [st |-> "err", error |-> error]]
          /\ pc' = [pc EXCEPT ![t] = "finished"]
          /\ outcome' = [outcome EXCEPT ![t] = IondriveError(error)]
  /\ UNCHANGED <<gil, loader, frame, trace>>

\* a step of the marshaller with result r: its host steps are recorded; it
\* goes on to next, or the unwrap() that failed panics
Step(t, r, next, newFrame, newOutcome) ==
  /\ trace' = [trace EXCEPT ![t] = @ \o r.ev]
  /\ IF r.ok
     THEN /\ pc' = [pc EXCEPT ![t] = next]
          /\ frame' = [frame EXCEPT ![t] = newFrame]
          /\ outcome' = [outcome EXCEPT ![t] = newOutcome]
     ELSE /\ pc' = [pc EXCEPT ![t] = "panicked"]
          /\ frame' = frame
          /\ outcome' = [outcome EXCEPT ![t] = PanicOutcome]
  /\ UNCHANGED <<gil, loader, parsed>>

\* let font = loader.getattr("Font").unwrap();
FontLookup(t) ==
  /\ pc[t] = "font"
  /\ Step(t, GetattrUnwrap(loader[t], "Font"), "layers", frame[t], outcome[t])

\* wrap_layerset: the next layer of layers.iter() is wrapped and collected
WrapLayer(t) ==
  /\ pc[t] = "layers"
  /\ LET layers == parsed[t].ufo.layers.layers
         i == Len(frame[t].wrapped) + 1
         r == LayerToWrapped(layers[i], loader[t])
     IN Step(t, r, IF i = Len(layers) THEN "layerset" ELSE "layers",
             [frame[t] EXCEPT !.wrapped = Collect(@, r.val)], outcome[t])

\* wrap_layerset: LayerSet.from_iterable(wrapped_layers, default name)
WrapLayerSet(t) ==
  /\ pc[t] = "layerset"
  /\ LET r == FromIterable(frame[t].wrapped, parsed[t].ufo.layers, loader[t])
     IN Step(t, r, "fontcall", [frame[t] EXCEPT !.layers = r.val], outcome[t])

\* the remaining arguments of Font and its call; load wraps the result in Ok
WrapFont(t) ==
  /\ pc[t] = "fontcall"
  /\ LET r == FontFinish(parsed[t].ufo, frame[t].layers, loader[t])
     IN Step(t, r, "finished", frame[t], OkOutcome(r.val))

\* load returns: the GILGuard is dropped, the caller gets the outcome
Return(t) ==
  /\ pc[t] = "finished"
  /\ pc' = [pc EXCEPT ![t] = "idle"]
  /\ gil' = IF gil = t THEN "none" ELSE gil
  /\ loader' = [loader EXCEPT ![t] = GoodLoader]
  /\ parsed' = [parsed EXCEPT ![t] = NoParse]
  /\ frame' = [frame EXCEPT ![t] = NoFrame]
  /\ trace' = [trace EXCEPT ![t] = <<>>]
  /\ outcome' = [outcome EXCEPT ![t] = NoOutcome]

\* a panic unwinds out of load: the GILGuard is dropped, no value is returned
Unwind(t) ==
  /\ pc[t] = "panicked"
  /\ pc' = [pc EXCEPT ![t] = "idle"]
  /\ gil' = IF gil = t THEN "none" ELSE gil
  /\ loader' = [loader EXCEPT ![t] = GoodLoader]
  /\ parsed' = [parsed EXCEPT ![t] = NoParse]
  /\ frame' = [frame EXCEPT ![t] = NoFrame]
  /\ trace' = [trace EXCEPT ![t] = <<>>]
  /\ outcome' = [outcome EXCEPT ![t] = NoOutcome]

Next ==
  \E t \in Threads :
    \/ Enter(t)
    \/ AcquireGil(t)
    \/ Parse(t)
    \/ FontLookup(t)
    \/ WrapLayer(t)
    \/ WrapLayerSet(t)
    \/ WrapFont(t)
    \/ Return(t)
    \/ Unwind(t)

Spec == Init /\ [][Next]_vars

\* ------------------------------------------------------------ properties
\* the host steps of a call that invoke the constructor cls
CallsOf(t, cls) ==
  {i \in DOMAIN trace[t] : trace[t][i].op = "call" /\ trace[t][i].cls = cls}

GlyphNames(layer) == [i \in DOMAIN layer.glyphs |-> PyStr(layer.glyphs[i].name.s)]

WrappedGlyphNames(obj) ==
  [i \in DOMAIN obj.kwargs.glyphs.items |-> obj.kwargs.glyphs.items[i].kwargs.name]

\* C1: the list wrap_layerset passes to LayerSet.from_iterable is as long as
\* the source LayerSet and its i-th element is the wrapped i-th layer (a Layer
\* object with that layer's name and that layer's glyphs, in order): nothing
\* is reordered, dropped or duplicated.
LayerOrderPreserved ==
  \A t \in Threads : \A i \in CallsOf(t, "LayerSet") :
    LET src == parsed[t].ufo.layers.layers
        items == trace[t][i].args[1].items
    IN /\ Len(items) = Len(src)
       /\ \A k \in DOMAIN src :
            /\ items[k].cls = "Layer"
            /\ items[k].kwargs.name = PyStr(src[k].name.s)
            /\ WrappedGlyphNames(items[k]) = GlyphNames(src[k])

\* a LayerSet of two layers with different glyphs has reached from_iterable
LayerOrderWitness ==
  \E t \in Threads : \E i \in CallsOf(t, "LayerSet") :
    LET src == parsed[t].ufo.layers.layers
    IN Len(src) = 2 /\ Len(src[1].glyphs) = 2 /\ Len(src[2].glyphs) = 0

\* C2: the default-layer name passed to LayerSet.from_iterable is the name of
\* one of the layer objects passed with it.
DefaultNameAmongLayers ==
  \A t \in Threads : \A i \in CallsOf(t, "LayerSet") :
    LET items == trace[t][i].args[1].items
    IN \E k \in DOMAIN items : items[k].kwargs.name = trace[t][i].args[2]

\* from_iterable was called for a set whose default is its second layer and
\* which has no layer named public.default
DefaultNameWitness ==
  \E t \in Threads : \E i \in CallsOf(t, "LayerSet") :
    LET ls == parsed[t].ufo.layers
    IN /\ ls.default = 2
       /\ \A k \in DOMAIN ls.layers : ls.layers[k].name.s # "public.default"
       /\ trace[t][i].args[2] = PyStr(ls.layers[2].name.s)

\* the glyphs and layers of the font a call is marshalling
SourceLayers(t) ==
  {parsed[t].ufo.layers.layers[k] : k \in DOMAIN parsed[t].ufo.layers.layers}

SourceGlyphs(t) ==
  UNION {{l.glyphs[k] : k \in DOMAIN l.glyphs} : l \in SourceLayers(t)}

\* C3: absent kerning and groups reach Font as an empty mapping and absent
\* features as an empty string, never as None; an absent glyph width, glyph
\* note or layer color is passed as None, under its argument name.
AbsentOptionals ==
  \A t \in Threads :
    /\ \A i \in CallsOf(t, "Font") :
         LET kw == trace[t][i].kwargs
             ufo == parsed[t].ufo
         IN /\ {"kerning", "groups", "features"} \subseteq DOMAIN kw
            /\ kw.kerning # PyNone /\ kw.groups # PyNone /\ kw.features # PyNone
            /\ ufo.kerning = RNone => kw.kerning = PyDict(<<>>)
            /\ ufo.groups = RNone => kw.groups = PyDict(<<>>)
            /\ ufo.features = RNone => kw.features = PyStr("")
    /\ \A i \in CallsOf(t, "Glyph") :
         LET kw == trace[t][i].kwargs
         IN /\ {"width", "note"} \subseteq DOMAIN kw
            /\ \A g \in SourceGlyphs(t) :
                 PyStr(g.name.s) = kw.name =>
                   /\ g.width = RNone => kw.width = PyNone
                   /\ g.note = RNone => kw.note = PyNone
    /\ \A i \in CallsOf(t, "Layer") :
         LET kw == trace[t][i].kwargs
         IN /\ "color" \in DOMAIN kw
            /\ \A l \in SourceLayers(t) :
                 (PyStr(l.name.s) = kw.name /\ l.color = RNone) => kw.color = PyNone

\* Font was called for a font without kerning, groups and features, one of
\* whose layers has no color and holds a glyph without width and one without note
AbsentOptionalsWitness ==
  \E t \in Threads :
    /\ CallsOf(t, "Font") # {}
    /\ parsed[t].ufo.kerning = RNone
    /\ parsed[t].ufo.groups = RNone
    /\ parsed[t].ufo.features = RNone
    /\ \E l \in SourceLayers(t) :
         /\ l.color = RNone
         /\ \E j, k \in DOMAIN l.glyphs :
              l.glyphs[j].width = RNone /\ l.glyphs[k].note = RNone

RECURSIVE KerningSize(_)
KerningSize(es) == IF es = <<>> THEN 0 ELSE Len(es[1][2]) + KerningSize(Tail(es))

\* C4: the kerning passed to Font holds the entry (left, right) -> v exactly
\* when the source maps left to a map that maps right to v, and so has as
\* many entries as the inner maps together; absent kerning is an empty dict.
KerningFlattened ==
  \A t \in Threads : \A i \in CallsOf(t, "Font") :
    LET d == trace[t][i].kwargs.kerning
        k == parsed[t].ufo.kerning
    IN IF k = RNone THEN d = PyDict(<<>>)
       ELSE /\ d.t = "dict"
            /\ Len(d.items) = KerningSize(k.x)
            /\ \A a, b \in DOMAIN d.items : a # b => d.items[a][1] # d.items[b][1]
            /\ \A left, right \in Keys :
                 \A v \in {KernVal(l, r) : l, r \in Keys} :
                   (\E a \in DOMAIN d.items :
                      d.items[a] = <<[t |-> "tuple", a |-> PyStr(KeyStr(left)),
                                     b |-> PyStr(KeyStr(right))], PyNum(v)>>)
                   <=> (\E x \in DOMAIN k.x :
                          /\ k.x[x][1] = left
                          /\ \E y \in DOMAIN k.x[x][2] :
                               k.x[x][2][y] = <<right, RNum(v)>>)

\* Font was called with the kerning of a font that kerns key1 with key1 and
\* key2, and key2 with key1
KerningWitness ==
  \E t \in Threads :
    /\ CallsOf(t, "Font") # {}
    /\ parsed[t].ufo.kerning # RNone
    /\ parsed[t].file.kerning.x = (1 :> {1, 2} @@ 2 :> {1})

\* C5: once a registry lookup fails nothing more is done on the host: the
\* call panics there and hands no object to its caller.
LookupFailureFailsLoad ==
  \A t \in Threads : \A i \in DOMAIN trace[t] :
    (trace[t][i].op = "getattr" /\ ~trace[t][i].ok) =>
      /\ i = Len(trace[t])
      /\ pc[t] = "panicked"
      /\ outcome[t].kind = "panic"

\* the lookup of LayerSet failed after the layers had been constructed
LookupFailureWitness ==
  \E t \in Threads :
    /\ CallsOf(t, "Layer") # {}
    /\ trace[t][Len(trace[t])] = EvGetattr("LayerSet", FALSE)

\* C6: when the parser fails, load is about to return IondriveError with the
\* parser's message, it has looked nothing up and constructed nothing, and it
\* does not parse again.
ParseFailureReported ==
  \A t \in Threads :
    parsed[t].st = "err" =>
      /\ outcome[t].kind = "err"
      /\ outcome[t].exc = "IondriveError"
      /\ outcome[t].msg = parsed[t].error.variant \o ": " \o parsed[t].error.detail
      /\ trace[t] = <<>>
      /\ pc[t] = "finished"

ParseFailureWitness ==
  \E t \in Threads :
    /\ parsed[t].st = "err"
    /\ outcome[t].msg = "IoError: No such file or directory"

\* C7: every call of load ends with the Font object or with IondriveError.
OneErrorKind ==
  \A t \in Threads :
    pc[t] \in {"finished", "panicked"} =>
      \/ outcome[t].kind = "ok"
      \/ outcome[t].kind = "err" /\ outcome[t].exc = "IondriveError"

\* a call is between its first and its last step on the host
Constructing(t) ==
  pc[t] \in {"font", "layers", "layerset", "fontcall"} \/ trace[t] # <<>>

AscendingKeys(S) == [i \in 1..Cardinality(S) |-> PyStr(KeyStr(SortedKeys(S)[i]))]

Range(s) == {s[i] : i \in DOMAIN s}

IsStrList(v, names) ==
  v.t = "list" /\ v.items = [i \in DOMAIN names |-> PyStr(names[i])]

\* C9: a key-sorted map becomes a dict with the same keys in ascending order,
\* each bound to the conversion of its value, whatever the order in which the
\* entries were inserted: groups, and lib with the maps nested in it.
SortedMapsConverted ==
  \A t \in Threads : \A i \in CallsOf(t, "Font") :
    LET kw == trace[t][i].kwargs
        file == parsed[t].file
    IN /\ file.groups # RNone =>
            /\ DictKeys(kw.groups) = AscendingKeys(Range(file.groups.x))
            /\ \A j \in DOMAIN kw.groups.items :
                 \A k \in Keys :
                   kw.groups.items[j][1] = PyStr(KeyStr(k)) =>
                     IsStrList(kw.groups.items[j][2],
                               IF k % 2 = 1 THEN <<"A">> ELSE <<"B", "A">>)
       /\ DictKeys(kw.lib) = AscendingKeys(Range(file.lib))
       /\ \A j \in DOMAIN kw.lib.items :
            \A k \in Keys :
              kw.lib.items[j][1] = PyStr(KeyStr(k)) =>
                IF k = 1 THEN kw.lib.items[j][2] = PyStr("v")
                ELSE /\ DictKeys(kw.lib.items[j][2]) = AscendingKeys({1, k})
                     /\ kw.lib.items[j][2].items[1][2].t = "list"
                     /\ kw.lib.items[j][2].items[2][2] = PyNum(7)

\* Font was called for a font whose groups stand in the file in descending
\* order of their names
SortedMapsWitness ==
  \E t \in Threads :
    /\ CallsOf(t, "Font") # {}
    /\ parsed[t].file.groups # RNone
    /\ parsed[t].file.groups.x = <<2, 1>>

\* C10 as stated: the parse is over before the lock is acquired, and a call
\* whose parse fails never holds the lock.
ParseBeforeAcquire ==
  \A t \in Threads :
    /\ gil = t => parsed[t].st # "none"
    /\ parsed[t].st = "err" => gil # t

\* C10 amended: the lock is acquired first and the parser runs while it is
\* held, so a parse result, failure included, exists only under the lock.
ParseUnderLock ==
  \A t \in Threads : parsed[t].st # "none" => gil = t

\* a call whose parse failed holds the lock
ParseUnderLockWitness ==
  \E t \in Threads : parsed[t].st = "err" /\ gil = t /\ pc[t] = "finished"

====
